---- MODULE Spec2Model ----
(***************************************************************************)
(* A model of the LSP relay proxy of remote-ssh.nvim.                      *)
(*                                                                         *)
(* Two source files implement the proxy:                                   *)
(*   lua/proxy.py             ("legacy": byte-at-a-time reader, scp only)  *)
(*   lua/remote-lsp/proxy.py  ("buffered": chunked reader, scp or rsync)   *)
(* The variable `variant` says which of the two is running.                *)
(*                                                                         *)
(* Bytes are modelled by lexemes: a string is a sequence of lexemes        *)
(* ("file:", "/", "scp:", a host, a path component), a header line is one  *)
(* lexeme, "\r\n" is one lexeme, and the i-th byte of the serialization of *)
(* a JSON value v is the lexeme BodyByte(v, i).                            *)
(***************************************************************************)
EXTENDS Integers, Sequences, FiniteSets, TLC

\* ------------------------------------------------------------------ bounds
\* Frames the editor sends on its side, frames the child sends on its side.
MaxN2S == 1
MaxS2N == 1

\* Frames the editor sends when one pipeline is observed on its own.
MaxStream == 2

\* input_stream.read(4096)
ReadSize == 4096

\* ---------------------------------------------------------------- strings
Min(a, b) == IF a < b THEN a ELSE b

Take(s, n) == SubSeq(s, 1, Min(n, Len(s)))

Drop(s, n) == SubSeq(s, Min(n, Len(s)) + 1, Len(s))

\* str.startswith(p)
StartsWith(s, p) == Len(s) >= Len(p) /\ SubSeq(s, 1, Len(p)) = p

\* The identifiers of one run: sys.argv[1] and sys.argv[2].
remote == "h"

\* The legacy proxy knows one scheme only; the buffered one takes it as argv[2].
protocol == "scp"

SchemeLex(p) == IF p = "scp" THEN "scp:" ELSE "rsync:"

\* f"{protocol}://{remote}/"
RemotePrefix(p, r) == <<SchemeLex(p), "/", "/", r, "/">>

\* "file://"
FilePrefix2 == <<"file:", "/", "/">>

\* "file:///"
FilePrefix3 == <<"file:", "/", "/", "/">>

\* f"file://{protocol}://{remote}/"
DoublePrefix(p, r) == FilePrefix2 \o RemotePrefix(p, r)

\* s.split("/", k)[-1]: what follows the k-th "/", or the last "/" when there
\* are fewer than k, or all of s when there is none.
RECURSIVE SplitLast(_, _)
SplitLast(s, k) ==
    IF k = 0 THEN s
    ELSE IF \E i \in 1..Len(s) : s[i] = "/"
         THEN LET i == CHOOSE j \in 1..Len(s) :
                           s[j] = "/" /\ \A m \in 1..(j - 1) : s[m] # "/"
              IN SplitLast(Drop(s, i), k - 1)
         ELSE s

\* ------------------------------------------------------------ JSON values
\* A decoded body: a tree.  t is the Python type, s the lexemes of a str,
\* c the entries <<key, value>> of a dict or <<"", item>> of a list.
Str(s) == [t |-> "str", s |-> s, c |-> <<>>]

Num == [t |-> "num", s |-> <<>>, c |-> <<>>]

Obj(kv) == [t |-> "dict", s |-> <<>>, c |-> kv]

Arr(items) == [t |-> "list", s |-> <<>>, c |-> [i \in 1..Len(items) |-> <<"", items[i]>>]]

IsStr(v) == v.t = "str"

IsDict(v) == v.t = "dict"

IsList(v) == v.t = "list"

\* key in d
Has(d, key) == \E i \in 1..Len(d.c) : d.c[i][1] = key

\* d[key]
Get(d, key) == d.c[CHOOSE i \in 1..Len(d.c) : d.c[i][1] = key][2]

\* d[key] = x, on a key d has
Put(d, key, x) ==
    [d EXCEPT !.c = [i \in 1..Len(d.c) |->
                        IF d.c[i][1] = key THEN <<key, x>> ELSE d.c[i]]]

\* message.get("method") == m, for a dict message
MethodIs(message, m) ==
    Has(message, "method") /\ Get(message, "method") = Str(<<m>>)

RECURSIVE SumSizes(_, _)
RECURSIVE Size(_)
\* len(json.dumps(v)), in lexemes: quotes, brackets, ":" and "," count one each.
Size(v) ==
    CASE v.t = "str" -> 2 + Len(v.s)
      [] v.t = "num" -> 1
      [] v.t = "dict" -> 2 + SumSizes(v.c, 2) + (IF Len(v.c) > 0 THEN Len(v.c) - 1 ELSE 0)
      [] v.t = "list" -> 2 + SumSizes(v.c, 0) + (IF Len(v.c) > 0 THEN Len(v.c) - 1 ELSE 0)

SumSizes(c, perKey) ==
    IF c = <<>> THEN 0 ELSE perKey + Size(c[1][2]) + SumSizes(Tail(c), perKey)

\* ------------------------------------------------------------- translation
RECURSIVE replace_uris(_, _, _, _)
\* lua/proxy.py: the double-prefix rule, then the generic prefix rule, on
\* every string leaf; dicts and lists are rebuilt around their values.
replace_uris(obj, pattern, replacement, rem) ==
    IF IsStr(obj) /\ StartsWith(obj.s, DoublePrefix("scp", rem))
    THEN Str(FilePrefix2 \o Drop(obj.s, Len(DoublePrefix("scp", rem))))
    ELSE IF IsStr(obj) /\ StartsWith(obj.s, pattern)
    THEN Str(replacement \o Drop(obj.s, Len(pattern)))
    ELSE IF IsDict(obj) \/ IsList(obj)
    THEN [obj EXCEPT !.c = [i \in 1..Len(obj.c) |->
             <<obj.c[i][1], replace_uris(obj.c[i][2], pattern, replacement, rem)>>]]
    ELSE obj

\* The second look deep_replace_uris takes at a "textDocument" entry, after
\* the recursion has already rewritten the entry's value in place.
TextDocumentFix(key, value, pattern, replacement) ==
    IF key = "textDocument" /\ IsDict(value) /\ Has(value, "uri")
       /\ IsStr(Get(value, "uri")) /\ StartsWith(Get(value, "uri").s, pattern)
    THEN Put(value, "uri", Str(replacement \o Drop(Get(value, "uri").s, Len(pattern))))
    ELSE value

RECURSIVE deep_replace_uris(_, _, _)
\* lua/remote-lsp/proxy.py: the prefix rule on every string leaf.
deep_replace_uris(obj, pattern, replacement) ==
    IF IsStr(obj)
    THEN IF StartsWith(obj.s, pattern)
         THEN Str(replacement \o Drop(obj.s, Len(pattern)))
         ELSE obj
    ELSE IF IsDict(obj)
    THEN [obj EXCEPT !.c = [i \in 1..Len(obj.c) |->
             <<obj.c[i][1],
               TextDocumentFix(obj.c[i][1],
                               deep_replace_uris(obj.c[i][2], pattern, replacement),
                               pattern, replacement)>>]]
    ELSE IF IsList(obj)
    THEN [obj EXCEPT !.c = [i \in 1..Len(obj.c) |->
             <<"", deep_replace_uris(obj.c[i][2], pattern, replacement)>>]]
    ELSE obj

RECURSIVE DeepRaises(_)
\* uri.startswith(pattern) on a "uri" that is no str raises AttributeError.
DeepRaises(obj) ==
    /\ IsDict(obj) \/ IsList(obj)
    /\ \E i \in 1..Len(obj.c) :
          \/ DeepRaises(obj.c[i][2])
          \/ /\ IsDict(obj)
             /\ obj.c[i][1] = "textDocument"
             /\ IsDict(obj.c[i][2])
             /\ Has(obj.c[i][2], "uri")
             /\ ~IsStr(Get(obj.c[i][2], "uri"))

\* params["rootUri"] = "file:///" + root_uri.split("/", 6)[-1]
FixRootUri(params, p, r) ==
    IF Has(params, "rootUri") /\ IsStr(Get(params, "rootUri"))
       /\ StartsWith(Get(params, "rootUri").s, DoublePrefix(p, r))
    THEN Put(params, "rootUri",
             Str(FilePrefix3 \o SplitLast(Get(params, "rootUri").s, 6)))
    ELSE params

\* params["rootPath"] = "/" + root_path.split("/", 4)[-1]
FixRootPath(params, p, r) ==
    IF Has(params, "rootPath") /\ IsStr(Get(params, "rootPath"))
       /\ StartsWith(Get(params, "rootPath").s, RemotePrefix(p, r))
    THEN Put(params, "rootPath",
             Str(<<"/">> \o SplitLast(Get(params, "rootPath").s, 4)))
    ELSE params

\* folder["uri"] = "file:///" + uri.split("/", 6)[-1]
FixFolder(folder, p, r) ==
    IF IsDict(folder) /\ Has(folder, "uri") /\ IsStr(Get(folder, "uri"))
       /\ StartsWith(Get(folder, "uri").s, DoublePrefix(p, r))
    THEN Put(folder, "uri", Str(FilePrefix3 \o SplitLast(Get(folder, "uri").s, 6)))
    ELSE folder

FixWorkspaceFolders(params, p, r) ==
    IF Has(params, "workspaceFolders") /\ IsList(Get(params, "workspaceFolders"))
    THEN LET fs == Get(params, "workspaceFolders")
         IN Put(params, "workspaceFolders",
                [fs EXCEPT !.c = [i \in 1..Len(fs.c) |-> <<"", FixFolder(fs.c[i][2], p, r)>>]])
    ELSE params

\* "uri" in folder raises TypeError on a folder that is a number.
FoldersRaise(message) ==
    /\ IsDict(message) /\ Has(message, "params") /\ IsDict(Get(message, "params"))
    /\ Has(Get(message, "params"), "workspaceFolders")
    /\ IsList(Get(Get(message, "params"), "workspaceFolders"))
    /\ \E i \in 1..Len(Get(Get(message, "params"), "workspaceFolders").c) :
          Get(Get(message, "params"), "workspaceFolders").c[i][2].t = "num"

\* The editor->server rewriting of lua/remote-lsp/proxy.py: three fields of
\* params and nothing else.
FixParams(message, p, r) ==
    IF IsDict(message) /\ Has(message, "params") /\ IsDict(Get(message, "params"))
    THEN Put(message, "params",
             FixWorkspaceFolders(FixRootPath(FixRootUri(Get(message, "params"), p, r), p, r), p, r))
    ELSE message

\* The stream names handle_stream is called with.
Dirs == {"n2s", "s2n"}

\* incoming_pattern / outgoing_pattern of main()
Pattern(var, d) ==
    IF d = "n2s" THEN RemotePrefix(protocol, remote) ELSE FilePrefix2

\* incoming_replacement / outgoing_replacement of main()
Replacement(var, d) ==
    IF d = "n2s" THEN FilePrefix2 ELSE RemotePrefix(protocol, remote)

\* Whether the steps between json.loads and json.dumps raise (the message is
\* then logged and dropped): message.get on a body that is no dict, and the
\* lookups above.
TranslateRaises(var, d, message) ==
    \/ d = "n2s" /\ ~IsDict(message)
    \/ var = "buffered" /\ d = "n2s" /\ FoldersRaise(message)
    \/ var = "buffered" /\ d = "s2n" /\ IsDict(message) /\ DeepRaises(message)

\* The message as it is passed to json.dumps.
Translate(var, d, message) ==
    IF var = "legacy"
    THEN replace_uris(message, Pattern(var, d), Replacement(var, d), remote)
    ELSE IF d = "n2s"
    THEN FixParams(message, protocol, remote)
    ELSE IF IsDict(message)
    THEN deep_replace_uris(message, FilePrefix3, RemotePrefix(protocol, remote))
    ELSE message

\* ------------------------------------------------------------------- wire
\* "\r\n"
CRLF == [k |-> "crlf", name |-> "", ok |-> TRUE, n |-> 0, v |-> Num]

\* One header line, f"{name}: {value}"; ok says whether int(value) succeeds.
HeaderLine(name, ok, n) == [k |-> "line", name |-> name, ok |-> ok, n |-> n, v |-> Num]

\* The i-th byte of a serialization of v.
BodyByte(v, i) == [k |-> "body", name |-> "", ok |-> TRUE, n |-> i, v |-> v]

\* A byte that belongs to no JSON text.
Junk == [k |-> "junk", name |-> "", ok |-> TRUE, n |-> 0, v |-> Num]

\* json.dumps(v).encode('utf-8')
Encode(v) == [i \in 1..Size(v) |-> BodyByte(v, i)]

\* json.loads(content.decode('utf-8')) succeeds
Decodable(content) ==
    /\ content # <<>>
    /\ content[1].k = "body"
    /\ content = Encode(content[1].v)

\* json.loads(content.decode('utf-8'))
Decode(content) == content[1].v

\* f"Content-Length: {len(new_content)}\r\n\r\n"
Header(new_content) == <<HeaderLine("Content-Length", TRUE, Len(new_content)), CRLF, CRLF>>

\* buffer.find(b"\r\n\r\n"): the index of the first of two "\r\n" in a row, 0 for -1
FindHeaderEnd(buffer) ==
    IF \E i \in 1..(Len(buffer) - 1) : buffer[i] = CRLF /\ buffer[i + 1] = CRLF
    THEN CHOOSE i \in 1..(Len(buffer) - 1) :
            /\ buffer[i] = CRLF /\ buffer[i + 1] = CRLF
            /\ \A j \in 1..(i - 1) : ~(buffer[j] = CRLF /\ buffer[j + 1] = CRLF)
    ELSE 0

\* header.endswith(b"\r\n\r\n")
EndsHeader(header) ==
    Len(header) >= 2 /\ header[Len(header)] = CRLF /\ header[Len(header) - 1] = CRLF

\* Whether position i of a header block starts a line: it follows a "\r\n".
LineStart(h, i) == h[i] # CRLF /\ (i = 1 \/ h[i - 1] = CRLF)

\* Whether the line that starts at i parses: the value is followed by the
\* end of the line, and is an int.
LineParses(h, i) == h[i].ok /\ (i = Len(h) \/ h[i + 1] = CRLF)

None == [some |-> FALSE, n |-> 0]

Some(n) == [some |-> TRUE, n |-> n]

\* line.lower(), on the header names that occur
Lower(name) ==
    IF name \in {"Content-Length", "content-length", "CONTENT-LENGTH"} THEN "content-length"
    ELSE IF name = "Content-Type" THEN "content-type"
    ELSE name

\* lua/remote-lsp/proxy.py: the name in any letter case; the last line
\* that parses wins.
ParseBuffered(h) ==
    LET hits == {i \in 1..Len(h) :
                    /\ LineStart(h, i) /\ h[i].k = "line"
                    /\ Lower(h[i].name) = "content-length"
                    /\ LineParses(h, i)}
    IN IF hits = {} THEN None
       ELSE Some(h[CHOOSE i \in hits : \A j \in hits : j <= i].n)

\* lua/proxy.py: the name as written; the first line that parses wins.
ParseLegacy(h) ==
    LET hits == {i \in 1..Len(h) :
                    /\ LineStart(h, i) /\ h[i].k = "line"
                    /\ h[i].name = "Content-Length"
                    /\ LineParses(h, i)}
    IN IF hits = {} THEN None
       ELSE Some(h[CHOOSE i \in hits : \A j \in hits : i <= j].n)

ParseContentLength(var, h) == IF var = "legacy" THEN ParseLegacy(h) ELSE ParseBuffered(h)

\* buffer[:n], with Python's reading of a negative n
SliceTo(b, n) == IF n >= 0 THEN Take(b, n) ELSE Take(b, IF Len(b) + n > 0 THEN Len(b) + n ELSE 0)

\* buffer[n:], with Python's reading of a negative n
SliceFrom(b, n) == IF n >= 0 THEN Drop(b, n) ELSE Drop(b, IF Len(b) + n > 0 THEN Len(b) + n ELSE 0)

\* ------------------------------------------------------------ environment
MsgExit == Obj(<< <<"method", Str(<<"exit">>)>> >>)

MsgShutdown == Obj(<< <<"method", Str(<<"shutdown">>)>> >>)

\* {"params": {"rootPath": "scp://h/a"}}
MsgInit == Obj(<< <<"params", Obj(<< <<"rootPath", Str(RemotePrefix(protocol, remote) \o <<"a">>)>> >>)>> >>)

\* {"uri": "file:///a"}
MsgResult == Obj(<< <<"uri", Str(FilePrefix3 \o <<"a">>)>> >>)

\* What a peer writes for one message: a header block and a body.
Frame(name, ok, n, body) == <<HeaderLine(name, ok, n), CRLF, CRLF>> \o body

GoodFrame(v) == Frame("Content-Length", TRUE, Size(v), Encode(v))

\* The frames the peers write when the whole proxy is observed: the editor
\* a request or the exit notification, the child a result.
PlainFrames(d) ==
    IF d = "n2s"
    THEN { [kind |-> "good", msg |-> MsgExit, bytes |-> GoodFrame(MsgExit)],
           [kind |-> "good", msg |-> MsgInit, bytes |-> GoodFrame(MsgInit)] }
    ELSE { [kind |-> "good", msg |-> MsgResult, bytes |-> GoodFrame(MsgResult)] }

\* The frames the editor writes when one pipeline is observed: well-formed
\* ones, one whose body is no JSON text, and header blocks without a usable
\* Content-Length.
RichFrames ==
    PlainFrames("n2s") \cup
    { [kind |-> "badjson", msg |-> Num, bytes |-> Frame("Content-Length", TRUE, 1, <<Junk>>)],
      [kind |-> "nolength", msg |-> Num, bytes |-> Frame("Content-Type", TRUE, 0, <<>>)],
      [kind |-> "notint", msg |-> Num, bytes |-> Frame("Content-Length", FALSE, 0, <<>>)],
      [kind |-> "negative", msg |-> Num, bytes |-> Frame("Content-Length", TRUE, -1, <<>>)] }

Frames(d, rich) == IF rich THEN RichFrames ELSE PlainFrames(d)

MaxFrames(d, rich) == IF rich THEN MaxStream ELSE IF d = "n2s" THEN MaxN2S ELSE MaxS2N

\* Where the transport may cut a frame in two: nowhere, or (when one pipeline
\* is observed) between the header block and the body.
Cuts(bytes, rich) == {Len(bytes)} \cup {i \in {3} : rich /\ i < Len(bytes)}

\* ------------------------------------------------------------------ state
VARIABLES
    variant,            \* "legacy" (lua/proxy.py) or "buffered" (lua/remote-lsp/proxy.py)
    shutdown_requested, \* the module-level flag
    inp,                \* per direction: bytes written by the peer and not yet read
    inEOF,              \* per direction: the peer has closed its end
    pend,               \* per direction: the rest of a frame still in the transport
    sent,               \* per direction: the frames the peer has written so far
    out,                \* per direction: bytes that reached the output pipe
    wbuf,               \* per direction: bytes held by the output's BufferedWriter
    stdoutClosed,       \* the editor has closed the read end of the proxy's stdout
    pc,                 \* per direction: where the forwarding thread is
    buffer,             \* per direction: buffer (buffered) / header (legacy)
    parsing_headers,    \* per direction: parsing_headers (buffered)
    content_length,     \* per direction
    content,            \* per direction: content (legacy body reader)
    new_content,        \* per direction: the serialized message being written
    child,              \* the ssh process: "none", "running", "exited"
    returncode,         \* ssh_process.returncode: None until poll() or wait() sees the exit
    mpc,                \* where main() is
    steps,              \* what main() has seen and done to tear down, in order
    report,             \* "": nothing logged yet; "clean" / "unclean"
    exitcode,           \* the proxy's exit status, once it has exited
    signalled,          \* signal_handler has run
    stderr_pc,          \* where the stderr logger thread is
    log                 \* per direction: what became of each header block and body

vars == <<variant, shutdown_requested, inp, inEOF, pend, sent, out, wbuf, stdoutClosed,
          pc, buffer, parsing_headers, content_length, content, new_content,
          child, returncode, mpc, steps, report, exitcode, signalled, stderr_pc, log>>

streamVars == <<inp, inEOF, pend, sent>>

localVars == <<buffer, parsing_headers, content_length, content, new_content>>

mainVars == <<mpc, returncode, steps, report, exitcode>>

\* ssh_process.terminate() was called
termSent == \E i \in 1..Len(steps) : steps[i] = "terminate"

\* ssh_process.kill() was called
killSent == \E i \in 1..Len(steps) : steps[i] = "kill"

All(x) == [d \in Dirs |-> x]

Init ==
    /\ variant \in {"legacy", "buffered"}
    /\ shutdown_requested = FALSE
    /\ inp = All(<<>>)
    /\ inEOF = All(FALSE)
    /\ pend = All(<<>>)
    /\ sent = All(<<>>)
    /\ out = All(<<>>)
    /\ wbuf = All(<<>>)
    /\ stdoutClosed = FALSE
    /\ pc = All("unstarted")
    /\ buffer = All(<<>>)
    /\ parsing_headers = All(TRUE)
    /\ content_length = All(None)
    /\ content = All(<<>>)
    /\ new_content = All(<<>>)
    /\ child = "none"
    /\ returncode = None
    /\ mpc = "spawn"
    /\ steps = <<>>
    /\ report = ""
    /\ exitcode = None
    /\ signalled = FALSE
    /\ stderr_pc = "unstarted"
    /\ log = All(<<>>)

\* ------------------------------------------------------------------ peers
\* The peer of direction d writes one more frame; the transport delivers
\* all of it, or the header block first.  The editor holds the write end of
\* the proxy's stdin from the start and may write before any thread reads.
PeerSend(d, rich) ==
    /\ d = "n2s" \/ pc[d] # "unstarted"
    /\ d = "s2n" => child = "running"
    /\ ~inEOF[d]
    /\ pend[d] = <<>>
    /\ Len(sent[d]) < MaxFrames(d, rich)
    /\ \E f \in Frames(d, rich) : \E cut \in Cuts(f.bytes, rich) :
          /\ inp' = [inp EXCEPT ![d] = @ \o Take(f.bytes, cut)]
          /\ pend' = [pend EXCEPT ![d] = Drop(f.bytes, cut)]
          /\ sent' = [sent EXCEPT ![d] = Append(@, [kind |-> f.kind, msg |-> f.msg])]
    /\ UNCHANGED <<variant, stderr_pc, shutdown_requested, inEOF, out, wbuf, stdoutClosed, pc,
                   localVars, child, mainVars, signalled, log>>

\* The rest of a frame arrives.
PeerDeliver(d) ==
    /\ pend[d] # <<>>
    /\ inp' = [inp EXCEPT ![d] = @ \o pend[d]]
    /\ pend' = [pend EXCEPT ![d] = <<>>]
    /\ UNCHANGED <<variant, stderr_pc, shutdown_requested, inEOF, sent, out, wbuf, stdoutClosed, pc,
                   localVars, child, mainVars, signalled, log>>

\* The editor goes away: the proxy's stdin reaches end of file and the read
\* end of its stdout is closed.
EditorQuits ==
    /\ pc["n2s"] # "unstarted"
    /\ ~inEOF["n2s"]
    /\ inEOF' = [inEOF EXCEPT !["n2s"] = TRUE]
    /\ pend' = [pend EXCEPT !["n2s"] = <<>>]
    /\ stdoutClosed' = TRUE
    /\ UNCHANGED <<variant, stderr_pc, shutdown_requested, inp, sent, out, wbuf, pc,
                   localVars, child, mainVars, signalled, log>>

\* The ssh process ends, on its own or after a signal: its stdout reaches
\* end of file once read, and writes to its stdin fail.
ChildExits ==
    /\ pc["s2n"] # "unstarted"
    /\ child = "running"
    /\ child' = "exited"
    /\ inEOF' = [inEOF EXCEPT !["s2n"] = TRUE]
    /\ pend' = [pend EXCEPT !["s2n"] = <<>>]
    /\ UNCHANGED <<variant, stderr_pc, shutdown_requested, inp, sent, out, wbuf, stdoutClosed, pc,
                   localVars, mainVars, signalled, log>>

\* signal_handler: SIGINT or SIGTERM is delivered to the proxy.
signal_handler ==
    /\ mpc \notin {"spawn", "start", "exited"}
    /\ ~shutdown_requested
    /\ shutdown_requested' = TRUE
    /\ signalled' = TRUE
    /\ UNCHANGED <<variant, stderr_pc, streamVars, out, wbuf, stdoutClosed, pc,
                   localVars, child, mainVars, log>>

\* ---------------------------------------------------------------- streams
\* sys.stdin.buffer is a BufferedReader; ssh_process.stdout, opened with
\* bufsize=0, is a raw FileIO.
BufferedInput(d) == d = "n2s"

\* hasattr(input_stream, 'peek')
can_peek(d) == BufferedInput(d)

\* ssh_process.stdin, opened with bufsize=0, is a raw FileIO;
\* sys.stdout.buffer is a BufferedWriter.
RawOutput(d) == d = "n2s"

\* Whether input_stream.read(n) returns: a BufferedReader waits for n bytes
\* or end of file, a raw stream for one byte or end of file.
ReadReturns(d, n) ==
    IF BufferedInput(d)
    THEN Len(inp[d]) >= n \/ inEOF[d]
    ELSE inp[d] # <<>> \/ inEOF[d]

\* Whether a write that reaches the pipe raises BrokenPipeError.
OutBroken(d) == IF d = "n2s" THEN child = "exited" ELSE stdoutClosed

\* --------------------------------------------------------------- pipelines
\* What the log keeps of a parsed header block: no usable Content-Length,
\* or a negative one.
HeaderOutcome(cl) ==
    IF ~cl.some THEN <<"framing">> ELSE IF cl.n < 0 THEN <<"negative">> ELSE <<>>

\* json.loads succeeds and nothing raises before json.dumps.
Forwardable(d, c) == Decodable(c) /\ ~TranslateRaises(variant, d, Decode(c))

\* message.get("method") == "exit", on the editor's side only
SeesExit(d, c) ==
    d = "n2s" /\ Decodable(c) /\ IsDict(Decode(c)) /\ MethodIs(Decode(c), "exit")

\* Where a pipeline goes on after a message: the top of the inner loop
\* (buffered) or of the outer loop (legacy).
NextMessage == IF variant = "buffered" THEN "proc" ELSE "loop"

\* ProcessContent, had it treated a body that does not decode as the end of
\* the stream.
ProcessContentFatal(d, c) ==
    /\ shutdown_requested' = (shutdown_requested \/ SeesExit(d, c))
    /\ IF Forwardable(d, c)
       THEN /\ new_content' = [new_content EXCEPT ![d] = Encode(Translate(variant, d, Decode(c)))]
            /\ pc' = [pc EXCEPT ![d] = "whdr"]
            /\ log' = log
       ELSE /\ new_content' = new_content
            /\ pc' = [pc EXCEPT ![d] = "ret"]
            /\ log' = [log EXCEPT ![d] = Append(@, IF Decodable(c) THEN "raised" ELSE "badjson")]

\* The try block around one complete body c: decode, look for "exit",
\* rewrite, serialize.  A body that does not decode, or a step that raises,
\* is logged and the message dropped.
ProcessContent(d, c) ==
    /\ shutdown_requested' = (shutdown_requested \/ SeesExit(d, c))
    /\ IF Forwardable(d, c)
       THEN /\ new_content' = [new_content EXCEPT ![d] = Encode(Translate(variant, d, Decode(c)))]
            /\ pc' = [pc EXCEPT ![d] = "whdr"]
            /\ log' = log
       ELSE /\ new_content' = new_content
            /\ pc' = [pc EXCEPT ![d] = NextMessage]
            /\ log' = [log EXCEPT ![d] = Append(@, IF Decodable(c) THEN "raised" ELSE "badjson")]

\* while not shutdown_requested:   (the outer loop of either handle_stream)
LoopTest(d) ==
    /\ pc[d] = "loop"
    /\ pc' = [pc EXCEPT ![d] =
                 IF shutdown_requested THEN "ret"
                 ELSE IF variant = "buffered" THEN "read"
                 ELSE IF can_peek(d) THEN "peek" ELSE "hdr"]
    /\ buffer' = [buffer EXCEPT ![d] = IF variant = "legacy" THEN <<>> ELSE @]
    /\ UNCHANGED <<variant, stderr_pc, shutdown_requested, streamVars, out, wbuf, stdoutClosed,
                   parsing_headers, content_length, content, new_content,
                   child, mainVars, signalled, log>>

\* chunk = input_stream.read(4096); an empty chunk ends the loop.
ReadChunk(d) ==
    /\ variant = "buffered"
    /\ pc[d] = "read"
    /\ ReadReturns(d, ReadSize)
    /\ inp' = [inp EXCEPT ![d] = Drop(@, ReadSize)]
    /\ buffer' = [buffer EXCEPT ![d] = @ \o Take(inp[d], ReadSize)]
    /\ pc' = [pc EXCEPT ![d] = IF inp[d] = <<>> THEN "ret" ELSE "proc"]
    /\ UNCHANGED <<variant, stderr_pc, shutdown_requested, inEOF, pend, sent, out, wbuf, stdoutClosed,
                   parsing_headers, content_length, content, new_content,
                   child, mainVars, signalled, log>>

\* One turn of "while buffer and not shutdown_requested" when it is looking
\* for a header block.
ParseHeaders(d) ==
    /\ variant = "buffered"
    /\ pc[d] = "proc"
    /\ buffer[d] # <<>> /\ ~shutdown_requested
    /\ parsing_headers[d]
    /\ LET header_end == FindHeaderEnd(buffer[d])
           cl == ParseContentLength(variant, Take(buffer[d], header_end - 1))
       IN IF header_end = 0
          THEN /\ pc' = [pc EXCEPT ![d] = "loop"]
               /\ UNCHANGED <<buffer, parsing_headers, content_length, log>>
          ELSE /\ buffer' = [buffer EXCEPT ![d] = Drop(@, header_end + 1)]
               /\ content_length' = [content_length EXCEPT ![d] = cl]
               /\ parsing_headers' = [parsing_headers EXCEPT ![d] = ~cl.some]
               /\ log' = [log EXCEPT ![d] = @ \o HeaderOutcome(cl)]
               /\ pc' = pc
    /\ UNCHANGED <<variant, stderr_pc, shutdown_requested, streamVars, out, wbuf, stdoutClosed,
                   content, new_content, child, mainVars, signalled>>

\* One turn of the inner loop when it is waiting for a body.
ParseContent(d) ==
    /\ variant = "buffered"
    /\ pc[d] = "proc"
    /\ buffer[d] # <<>> /\ ~shutdown_requested
    /\ ~parsing_headers[d]
    /\ IF Len(buffer[d]) >= content_length[d].n
       THEN /\ buffer' = [buffer EXCEPT ![d] = SliceFrom(@, content_length[d].n)]
            /\ ProcessContent(d, SliceTo(buffer[d], content_length[d].n))
            /\ parsing_headers' = [parsing_headers EXCEPT ![d] = pc'[d] # "whdr"]
            /\ content_length' = [content_length EXCEPT ![d] = IF pc'[d] # "whdr" THEN None ELSE @]
       ELSE /\ pc' = [pc EXCEPT ![d] = "loop"]
            /\ UNCHANGED <<shutdown_requested, buffer, parsing_headers, content_length,
                           new_content, log>>
    /\ UNCHANGED <<variant, stderr_pc, streamVars, out, wbuf, stdoutClosed, content, child, mainVars, signalled>>

\* The inner loop ends: the buffer is empty or shutdown was requested.
InnerLoopEnd(d) ==
    /\ variant = "buffered"
    /\ pc[d] = "proc"
    /\ buffer[d] = <<>> \/ shutdown_requested
    /\ pc' = [pc EXCEPT ![d] = "loop"]
    /\ UNCHANGED <<variant, stderr_pc, shutdown_requested, streamVars, out, wbuf, stdoutClosed,
                   localVars, child, mainVars, signalled, log>>

\* input_stream.peek(1): waits for a byte or end of file.
Peek(d) ==
    /\ variant = "legacy"
    /\ pc[d] = "peek"
    /\ inp[d] # <<>> \/ inEOF[d]
    /\ pc' = [pc EXCEPT ![d] = IF inp[d] = <<>> THEN "ret" ELSE "hdr"]
    /\ UNCHANGED <<variant, stderr_pc, shutdown_requested, streamVars, out, wbuf, stdoutClosed,
                   localVars, child, mainVars, signalled, log>>

\* What follows the header loop of the legacy reader: the Content-Length
\* is parsed from the bytes read so far: none sends the reader back to the
\* top of the outer loop.
AfterHeader(d, header) ==
    LET cl == ParseContentLength(variant, header)
    IN /\ content_length' = [content_length EXCEPT ![d] = cl]
       /\ content' = [content EXCEPT ![d] = <<>>]
       /\ pc' = [pc EXCEPT ![d] = IF cl.some THEN "body" ELSE "loop"]
       /\ log' = [log EXCEPT ![d] = @ \o HeaderOutcome(cl)]

\* One turn of the header loop: byte = input_stream.read(1).
ReadHeaderByte(d) ==
    /\ variant = "legacy"
    /\ pc[d] = "hdr"
    /\ IF shutdown_requested
       THEN /\ AfterHeader(d, buffer[d])
            /\ UNCHANGED <<inp, buffer>>
       ELSE /\ ReadReturns(d, 1)
            /\ IF inp[d] = <<>>
               THEN /\ pc' = [pc EXCEPT ![d] = "ret"]
                    /\ UNCHANGED <<inp, buffer, content_length, content, log>>
               ELSE /\ inp' = [inp EXCEPT ![d] = Tail(@)]
                    /\ buffer' = [buffer EXCEPT ![d] = Append(@, Head(inp[d]))]
                    /\ IF EndsHeader(buffer'[d])
                       THEN AfterHeader(d, buffer'[d])
                       ELSE UNCHANGED <<pc, content_length, content, log>>
    /\ UNCHANGED <<variant, stderr_pc, shutdown_requested, inEOF, pend, sent, out, wbuf, stdoutClosed,
                   parsing_headers, new_content, child, mainVars, signalled>>

\* ReadContent, had it gone on with what it has when the stream ends
\* inside a body.
ReadContentEager(d) ==
    /\ variant = "legacy"
    /\ pc[d] = "body"
    /\ IF Len(content[d]) < content_length[d].n /\ ~shutdown_requested /\ inp[d] # <<>>
       THEN /\ ReadReturns(d, content_length[d].n - Len(content[d]))
            /\ inp' = [inp EXCEPT ![d] = Drop(@, content_length[d].n - Len(content[d]))]
            /\ content' = [content EXCEPT ![d] = @ \o Take(inp[d], content_length[d].n - Len(@))]
            /\ pc' = pc
            /\ UNCHANGED <<shutdown_requested, new_content, log>>
       ELSE IF shutdown_requested
       THEN /\ pc' = [pc EXCEPT ![d] = "ret"]
            /\ UNCHANGED <<shutdown_requested, inp, content, new_content, log>>
       ELSE /\ Len(content[d]) >= content_length[d].n \/ inEOF[d]
            /\ ProcessContent(d, content[d])
            /\ UNCHANGED <<inp, content>>
    /\ UNCHANGED <<variant, stderr_pc, inEOF, pend, sent, out, wbuf, stdoutClosed,
                   buffer, parsing_headers, content_length, child, mainVars, signalled>>

\* One turn of the content loop of the legacy reader, and what follows it.
ReadContent(d) ==
    /\ variant = "legacy"
    /\ pc[d] = "body"
    /\ IF Len(content[d]) < content_length[d].n /\ ~shutdown_requested
       THEN /\ ReadReturns(d, content_length[d].n - Len(content[d]))
            /\ inp' = [inp EXCEPT ![d] = Drop(@, content_length[d].n - Len(content[d]))]
            /\ content' = [content EXCEPT ![d] = @ \o Take(inp[d], content_length[d].n - Len(@))]
            /\ pc' = [pc EXCEPT ![d] = IF inp[d] = <<>> THEN "ret" ELSE @]
            /\ UNCHANGED <<shutdown_requested, new_content, log>>
       ELSE IF shutdown_requested
       THEN /\ pc' = [pc EXCEPT ![d] = "ret"]
            /\ UNCHANGED <<shutdown_requested, inp, content, new_content, log>>
       ELSE /\ ProcessContent(d, content[d])
            /\ UNCHANGED <<inp, content>>
    /\ UNCHANGED <<variant, stderr_pc, inEOF, pend, sent, out, wbuf, stdoutClosed,
                   buffer, parsing_headers, content_length, child, mainVars, signalled>>

\* Write, had it gone on to the next step after a failure.
WriteOn(d, bytes, next) ==
    IF RawOutput(d)
    THEN IF OutBroken(d)
         THEN /\ pc' = [pc EXCEPT ![d] = next]
              /\ log' = [log EXCEPT ![d] = Append(@, "write failed")]
              /\ UNCHANGED <<out, wbuf>>
         ELSE /\ out' = [out EXCEPT ![d] = @ \o bytes]
              /\ pc' = [pc EXCEPT ![d] = next]
              /\ UNCHANGED <<wbuf, log>>
    ELSE /\ wbuf' = [wbuf EXCEPT ![d] = @ \o bytes]
         /\ pc' = [pc EXCEPT ![d] = next]
         /\ UNCHANGED <<out, log>>

\* Write, had it put the bytes out twice.
WriteTwice(d, bytes, next) ==
    IF RawOutput(d)
    THEN IF OutBroken(d)
         THEN /\ pc' = [pc EXCEPT ![d] = "ret"]
              /\ log' = [log EXCEPT ![d] = Append(@, "write failed")]
              /\ UNCHANGED <<out, wbuf>>
         ELSE /\ out' = [out EXCEPT ![d] = @ \o bytes \o bytes]
              /\ pc' = [pc EXCEPT ![d] = next]
              /\ UNCHANGED <<wbuf, log>>
    ELSE /\ wbuf' = [wbuf EXCEPT ![d] = @ \o bytes \o bytes]
         /\ pc' = [pc EXCEPT ![d] = next]
         /\ UNCHANGED <<out, log>>

\* output_stream.write(bytes): a raw stream writes to the pipe at once and
\* raises if it is broken; a BufferedWriter keeps the bytes.
Write(d, bytes, next) ==
    IF RawOutput(d)
    THEN IF OutBroken(d)
         THEN /\ pc' = [pc EXCEPT ![d] = "ret"]
              /\ log' = [log EXCEPT ![d] = Append(@, "write failed")]
              /\ UNCHANGED <<out, wbuf>>
         ELSE /\ out' = [out EXCEPT ![d] = @ \o bytes]
              /\ pc' = [pc EXCEPT ![d] = next]
              /\ UNCHANGED <<wbuf, log>>
    ELSE /\ wbuf' = [wbuf EXCEPT ![d] = @ \o bytes]
         /\ pc' = [pc EXCEPT ![d] = next]
         /\ UNCHANGED <<out, log>>

\* WriteHeader, had it sent the Content-Length of the inbound header on.
WriteHeaderCopied(d) ==
    /\ pc[d] = "whdr"
    /\ Write(d, <<HeaderLine("Content-Length", TRUE, content_length[d].n), CRLF, CRLF>>, "wbody")
    /\ UNCHANGED <<variant, stderr_pc, shutdown_requested, streamVars, stdoutClosed,
                   localVars, child, mainVars, signalled>>

\* output_stream.write(header.encode('utf-8'))
WriteHeader(d) ==
    /\ pc[d] = "whdr"
    /\ Write(d, Header(new_content[d]), "wbody")
    /\ UNCHANGED <<variant, stderr_pc, shutdown_requested, streamVars, stdoutClosed,
                   localVars, child, mainVars, signalled>>

\* output_stream.write(new_content.encode('utf-8'))
WriteBody(d) ==
    /\ pc[d] = "wbody"
    /\ Write(d, new_content[d], "flush")
    /\ UNCHANGED <<variant, stderr_pc, shutdown_requested, streamVars, stdoutClosed,
                   localVars, child, mainVars, signalled>>

\* output_stream.flush(), then the reset for the next message.
Flush(d) ==
    /\ pc[d] = "flush"
    /\ IF ~RawOutput(d) /\ OutBroken(d)
       THEN /\ pc' = [pc EXCEPT ![d] = "ret"]
            /\ log' = [log EXCEPT ![d] = Append(@, "write failed")]
            /\ UNCHANGED <<out, wbuf, parsing_headers, content_length>>
       ELSE /\ out' = [out EXCEPT ![d] = @ \o wbuf[d]]
            /\ wbuf' = [wbuf EXCEPT ![d] = <<>>]
            /\ pc' = [pc EXCEPT ![d] = NextMessage]
            /\ parsing_headers' = [parsing_headers EXCEPT ![d] = TRUE]
            /\ content_length' = [content_length EXCEPT ![d] = IF variant = "buffered" THEN None ELSE @]
            /\ log' = [log EXCEPT ![d] = Append(@, "forwarded")]
    /\ UNCHANGED <<variant, stderr_pc, shutdown_requested, streamVars, stdoutClosed,
                   buffer, content, new_content, child, mainVars, signalled>>

\* ThreadExit, had the thread function ended without setting the flag.
ThreadExitSilent(d) ==
    /\ pc[d] = "ret"
    /\ shutdown_requested' = shutdown_requested
    /\ pc' = [pc EXCEPT ![d] = "done"]
    /\ UNCHANGED <<variant, stderr_pc, streamVars, out, wbuf, stdoutClosed,
                   localVars, child, mainVars, signalled, log>>

\* neovim_to_ssh_thread / ssh_to_neovim_thread after handle_stream returns:
\* shutdown_requested = True
ThreadExit(d) ==
    /\ pc[d] = "ret"
    /\ shutdown_requested' = TRUE
    /\ pc' = [pc EXCEPT ![d] = "done"]
    /\ UNCHANGED <<variant, stderr_pc, streamVars, out, wbuf, stdoutClosed,
                   localVars, child, mainVars, signalled, log>>

Pipeline(d) ==
    \/ LoopTest(d)
    \/ ReadChunk(d)
    \/ ParseHeaders(d)
    \/ ParseContent(d)
    \/ InnerLoopEnd(d)
    \/ Peek(d)
    \/ ReadHeaderByte(d)
    \/ ReadContent(d)
    \/ WriteHeader(d)
    \/ WriteBody(d)
    \/ Flush(d)
    \/ ThreadExit(d)

\* -------------------------------------------------------------------- main
\* The exit statuses of the ssh process.
ChildCodes == {0, 1}

\* ssh_process.poll() / wait(): the status of a child that has exited is
\* stored in returncode the first time it is asked for.
Poll ==
    IF returncode.some \/ child # "exited" THEN {returncode}
    ELSE {Some(c) : c \in ChildCodes}

ThreadsDone == \A d \in Dirs : pc[d] = "done"

\* Spawn, had main() returned after a failed Popen instead of sys.exit(1).
SpawnReturns ==
    /\ mpc = "spawn"
    /\ \/ /\ child' = "running"
          /\ stderr_pc' = "readline"
          /\ mpc' = "start"
          /\ exitcode' = exitcode
       \/ /\ child' = child
          /\ stderr_pc' = stderr_pc
          /\ mpc' = "exited"
          /\ exitcode' = Some(0)
    /\ UNCHANGED <<variant, shutdown_requested, streamVars, out, wbuf, stdoutClosed, pc,
                   localVars, returncode, steps, report, signalled, log>>

\* subprocess.Popen(...) and stderr_thread.start(): the child and the
\* stderr logger start, or Popen raises and main() calls sys.exit(1) before
\* any thread exists.
Spawn ==
    /\ mpc = "spawn"
    /\ \/ /\ child' = "running"
          /\ stderr_pc' = "readline"
          /\ mpc' = "start"
          /\ exitcode' = exitcode
       \/ /\ child' = child
          /\ stderr_pc' = stderr_pc
          /\ mpc' = "exited"
          /\ exitcode' = Some(1)
    /\ UNCHANGED <<variant, shutdown_requested, streamVars, out, wbuf, stdoutClosed, pc,
                   localVars, returncode, steps, report, signalled, log>>

\* t1.start(); t2.start()
StartThreads ==
    /\ mpc = "start"
    /\ pc' = All("loop")
    /\ mpc' = "loop"
    /\ UNCHANGED <<variant, stderr_pc, shutdown_requested, streamVars, out, wbuf, stdoutClosed,
                   localVars, child, returncode, steps, report, exitcode, signalled, log>>

\* while not shutdown_requested and ssh_process.poll() is None: the loop
\* is left when the flag is set or the child is seen to have exited (a turn
\* that finds neither changes nothing).  The steps note when it is left on
\* the child's exit with no shutdown under way.
MainLoopExit ==
    /\ mpc = "loop"
    /\ shutdown_requested \/ child = "exited"
    /\ returncode' \in (IF shutdown_requested THEN {returncode} ELSE Poll)
    /\ steps' = IF ~shutdown_requested /\ \A d \in Dirs : pc[d] \notin {"ret", "done"}
                THEN Append(steps, "child exited") ELSE steps
    /\ mpc' = "check"
    /\ UNCHANGED <<variant, stderr_pc, shutdown_requested, streamVars, out, wbuf, stdoutClosed, pc,
                   localVars, child, report, exitcode, signalled, log>>

\* MainCheckExit, had it stored the outcome of the test in the flag.
MainCheckExitAssign ==
    /\ mpc = "check"
    /\ returncode' \in Poll
    /\ shutdown_requested' = (child = "exited")
    /\ mpc' = "cleanup"
    /\ UNCHANGED <<variant, stderr_pc, streamVars, out, wbuf, stdoutClosed, pc,
                   localVars, child, steps, report, exitcode, signalled, log>>

\* if ssh_process.poll() is not None: shutdown_requested = True
MainCheckExit ==
    /\ mpc = "check"
    /\ returncode' \in Poll
    /\ shutdown_requested' = (shutdown_requested \/ child = "exited")
    /\ mpc' = "cleanup"
    /\ UNCHANGED <<variant, stderr_pc, streamVars, out, wbuf, stdoutClosed, pc,
                   localVars, child, steps, report, exitcode, signalled, log>>

\* finally: if ssh_process.poll() is None: ssh_process.terminate()
MainTerminate ==
    /\ mpc = "cleanup"
    /\ returncode' \in Poll
    /\ steps' = IF child = "exited" THEN steps ELSE Append(steps, "terminate")
    /\ mpc' = IF child = "exited" THEN "setflag" ELSE "grace"
    /\ UNCHANGED <<variant, stderr_pc, shutdown_requested, streamVars, out, wbuf, stdoutClosed, pc,
                   localVars, child, report, exitcode, signalled, log>>

\* MainGrace, had the kill not depended on the outcome of the wait.
MainGraceKills ==
    /\ mpc = "grace"
    /\ returncode' \in Poll
    /\ steps' = Append(steps, "kill")
    /\ mpc' = "setflag"
    /\ UNCHANGED <<variant, stderr_pc, shutdown_requested, streamVars, out, wbuf, stdoutClosed, pc,
                   localVars, child, report, exitcode, signalled, log>>

\* ssh_process.wait(timeout=2): the child is gone, or the wait times out
\* and ssh_process.kill() follows.
MainGrace ==
    /\ mpc = "grace"
    /\ returncode' \in Poll
    /\ steps' = IF child = "exited" THEN steps ELSE Append(steps, "kill")
    /\ mpc' = "setflag"
    /\ UNCHANGED <<variant, stderr_pc, shutdown_requested, streamVars, out, wbuf, stdoutClosed, pc,
                   localVars, child, report, exitcode, signalled, log>>

\* shutdown_requested = True   (the one in the finally block)
MainSetFlag ==
    /\ mpc = "setflag"
    /\ shutdown_requested' = TRUE
    /\ mpc' = "join1"
    /\ UNCHANGED <<variant, stderr_pc, streamVars, out, wbuf, stdoutClosed, pc,
                   localVars, child, returncode, steps, report, exitcode, signalled, log>>

\* t1.join(timeout=2): returns when the thread is done, or after 2 s.
MainJoin1 ==
    /\ mpc = "join1"
    /\ mpc' = "join2"
    /\ steps' = Append(steps, "join t1")
    /\ UNCHANGED <<variant, stderr_pc, shutdown_requested, streamVars, out, wbuf, stdoutClosed, pc,
                   localVars, child, returncode, report, exitcode, signalled, log>>

\* t2.join(timeout=2)
MainJoin2 ==
    /\ mpc = "join2"
    /\ mpc' = "report"
    /\ steps' = Append(steps, "join t2")
    /\ UNCHANGED <<variant, stderr_pc, shutdown_requested, streamVars, out, wbuf, stdoutClosed, pc,
                   localVars, child, returncode, report, exitcode, signalled, log>>

\* if t1.is_alive() or t2.is_alive(): warning, else info; main() returns.
MainReport ==
    /\ mpc = "report"
    /\ report' = IF ThreadsDone THEN "clean" ELSE "unclean"
    /\ steps' = Append(steps, "report")
    /\ mpc' = "returned"
    /\ UNCHANGED <<variant, stderr_pc, shutdown_requested, streamVars, out, wbuf, stdoutClosed, pc,
                   localVars, child, returncode, exitcode, signalled, log>>

\* The interpreter exits after main() has returned: t1 and t2 are not
\* daemon threads, so it first waits for both, without a timeout.  The
\* stderr logger is a daemon thread and is not waited for.
ProcessExit ==
    /\ mpc = "returned"
    /\ ThreadsDone
    /\ mpc' = "exited"
    /\ exitcode' = Some(0)
    /\ UNCHANGED <<variant, stderr_pc, shutdown_requested, streamVars, out, wbuf, stdoutClosed, pc,
                   localVars, child, returncode, steps, report, signalled, log>>

Main ==
    \/ Spawn
    \/ StartThreads
    \/ MainLoopExit
    \/ MainCheckExit
    \/ MainTerminate
    \/ MainGrace
    \/ MainSetFlag
    \/ MainJoin1
    \/ MainJoin2
    \/ MainReport
    \/ ProcessExit

\* log_stderr_thread: process.stderr.readline() returns b"" once the child
\* is gone, or returns a line after which the loop test finds the flag set.
log_stderr_thread ==
    /\ stderr_pc = "readline"
    /\ child = "exited" \/ shutdown_requested
    /\ stderr_pc' = "done"
    /\ UNCHANGED <<variant, shutdown_requested, streamVars, out, wbuf, stdoutClosed, pc,
                   localVars, child, returncode, mpc, steps, report, exitcode, signalled, log>>

Program == (\E d \in Dirs : Pipeline(d)) \/ Main \/ log_stderr_thread

\* The whole proxy between an editor and a child that both talk.
Environment ==
    \/ \E d \in Dirs : PeerSend(d, FALSE)
    \/ EditorQuits
    \/ ChildExits
    \/ signal_handler

Next == Program \/ Environment

Spec == Init /\ [][Next]_vars

\* The editor->server pipeline in front of a silent child: the editor
\* writes frames of every kind, which may arrive in two pieces.
StreamEnvironment ==
    \/ PeerSend("n2s", TRUE)
    \/ PeerDeliver("n2s")
    \/ EditorQuits
    \/ ChildExits

StreamNext == Program \/ StreamEnvironment

StreamSpec == Init /\ [][StreamNext]_vars

\* ============================================================= properties
\* A pipeline is CLOSED once its thread function has returned.
Closed(d) == pc[d] = "done"

BothClosed == \A d \in Dirs : Closed(d)

\* The exit notification has been decoded and its frame is not yet written
\* and flushed.
ExitInFlight ==
    /\ pc["n2s"] \in {"whdr", "wbody", "flush"}
    /\ new_content["n2s"] = Encode(MsgExit)

\* Shutdown was requested by something other than the exit notification.
OtherCause == signalled \/ pc["s2n"] \in {"ret", "done"}

\* C1: when the editor->server pipeline decodes "exit", the exit frame is
\* written and flushed to the child's stdin before the main unit requests
\* termination of the child (unless something else requested shutdown).
C1_ExitFrameBeforeTermination == (ExitInFlight /\ termSent) => OtherCause

\* The proxy can take no step until a peer acts (a child that was sent
\* SIGKILL counts as about to exit).
Quiescent == ~ENABLED (Program \/ (killSent /\ ChildExits))

\* Nothing has arrived from either peer, and no signal.
Quiet == sent = All(<<>>) /\ ~inEOF["n2s"] /\ ~signalled

\* C2: if the child exits on its own while both pipelines are idle, both
\* pipelines reach CLOSED without anything arriving on a stream: once the
\* proxy has come to rest with nothing received, both are CLOSED.
C2_ChildExitClosesPipelines ==
    (child = "exited" /\ ~termSent /\ Quiet /\ Quiescent) => BothClosed

\* The editor has written a frame that holds the exit notification.
ExitArrived == \E i \in 1..Len(sent["n2s"]) : sent["n2s"][i].msg = MsgExit

\* C3: after "exit" arrives on the editor->server direction, both pipelines
\* reach CLOSED and the child is sent the termination request (or is gone
\* already): the proxy does not come to rest before that.
C3_ExitShutsDown ==
    (ExitArrived /\ Quiescent) => (BothClosed /\ (termSent \/ child = "exited"))

RECURSIVE Flatten(_)
Flatten(ss) == IF ss = <<>> THEN <<>> ELSE Head(ss) \o Flatten(Tail(ss))

IsPrefix(a, b) == Len(a) <= Len(b) /\ a = Take(b, Len(a))

\* The frames of the messages of direction d picked by the index set S, in
\* arrival order.
Forwards(d, S) ==
    Flatten([i \in 1..Len(sent[d]) |->
                IF i \in S THEN GoodFrame(Translate(variant, d, sent[d][i].msg)) ELSE <<>>])

GoodIndices(d) == {i \in 1..Len(sent[d]) : sent[d][i].kind = "good"}

\* C4: the bytes written in one direction are a prefix of the frames of a
\* subsequence of the messages received, in arrival order, and a new frame
\* is started only when every earlier one is written whole and flushed.
C4_FifoPerDirection ==
    \A d \in Dirs :
       /\ \E S \in SUBSET GoodIndices(d) : IsPrefix(out[d] \o wbuf[d], Forwards(d, S))
       /\ pc[d] = "whdr" =>
             /\ wbuf[d] = <<>>
             /\ \E S \in SUBSET GoodIndices(d) : out[d] = Forwards(d, S)

\* Two different messages were forwarded one after the other.
C4_Witness ==
    /\ Len(sent["n2s"]) = 2
    /\ sent["n2s"][1].msg # sent["n2s"][2].msg
    /\ log["n2s"] = <<"forwarded", "forwarded">>
    /\ out["n2s"] = Forwards("n2s", {1, 2})

Last(s) == s[Len(s)]

\* The latest thing logged for direction d is a header block without a
\* usable Content-Length, or one with a negative Content-Length.
FramingError(d) == log[d] # <<>> /\ Last(log[d]) \in {"framing", "negative"}

\* C5: a framing error (no Content-Length, a value that is no integer, a
\* negative value) is fatal for its direction: handle_stream returns.
C5_FramingErrorIsFatal ==
    \A d \in Dirs : FramingError(d) => pc[d] \in {"ret", "done"}

\* The step drops a body that does not decode.
DropsBody(d) == Len(log'[d]) = Len(log[d]) + 1 /\ Last(log'[d]) = "badjson"

\* C6: a body that does not decode is dropped: the step writes nothing,
\* leaves the shutdown flag alone and returns the pipeline to waiting for
\* the next header.
C6_UndecodableBodyDropped ==
    [][\A d \in Dirs : DropsBody(d) =>
          /\ out' = out /\ wbuf' = wbuf
          /\ shutdown_requested' = shutdown_requested
          /\ pc'[d] = NextMessage
          /\ variant = "buffered" => parsing_headers'[d]]_vars

\* A valid message was forwarded after an undecodable one was dropped.
C6_Witness ==
    /\ sent["n2s"] = <<[kind |-> "badjson", msg |-> Num], [kind |-> "good", msg |-> MsgInit]>>
    /\ log["n2s"] = <<"badjson", "forwarded">>
    /\ ~shutdown_requested

\* C7: whenever a forwarding thread has returned, the shutdown flag is set.
C7_ClosedImpliesShutdown == \A d \in Dirs : Closed(d) => shutdown_requested

\* One forwarding thread has returned on end of input while the other is
\* still at work.
C7_Witness ==
    /\ Closed("s2n") /\ ~Closed("n2s")
    /\ log["s2n"] = <<>> /\ ~signalled /\ mpc = "loop"

\* A write or flush of direction d has failed.
WriteFailed(d) == log[d] # <<>> /\ Last(log[d]) = "write failed"

\* C8: a write failure is fatal for its direction: handle_stream returns,
\* nothing more is read or written in that direction, and the flag is set
\* when the thread ends.
C8_WriteFailureIsFatal ==
    [][\A d \in Dirs : WriteFailed(d)' =>
          /\ pc'[d] \in {"ret", "done"}
          /\ pc'[d] = "done" => shutdown_requested'
          /\ WriteFailed(d) =>
                /\ out'[d] = out[d] /\ wbuf'[d] = wbuf[d]
                /\ Len(inp'[d]) >= Len(inp[d])
                /\ log'[d] = log[d]]_vars

\* A write to the child failed, unread input is left, and the thread ended.
C8_Witness ==
    /\ WriteFailed("n2s") /\ Closed("n2s")
    /\ shutdown_requested

Range(s) == {s[i] : i \in 1..Len(s)}

\* The place of each step in the teardown.
Rank(step) ==
    CASE step = "child exited" -> 0
      [] step = "terminate" -> 1
      [] step = "kill" -> 2
      [] step = "join t1" -> 3
      [] step = "join t2" -> 4
      [] step = "report" -> 5

\* C9, as the specification words it: teardown joins all forwarding and drain units before
\* the report.
C9_AllUnitsJoined ==
    "report" \in Range(steps) =>
        {"join t1", "join t2", "join stderr_thread"} \subseteq Range(steps)

\* C9, as the code has it: the flag is set before the child is sent the termination
\* request; the kill follows the request and only a child that is still
\* running after the grace period; the two forwarding threads are joined,
\* t1 then t2, after that; the report comes last.  The stderr logger is a
\* daemon thread and is never joined.
C9_TeardownOrder ==
    [][/\ \A i, j \in 1..Len(steps') : i < j => Rank(steps'[i]) < Rank(steps'[j])
       /\ termSent' => shutdown_requested'
       /\ killSent' => termSent'
       /\ (killSent' /\ ~killSent) => (mpc = "grace" /\ child = "running")
       /\ "join t1" \in Range(steps') => mpc' \notin {"loop", "check", "cleanup", "grace"}
       /\ "report" \in Range(steps') => {"join t1", "join t2"} \subseteq Range(steps')
       /\ "join stderr_thread" \notin Range(steps')]_vars

\* A teardown with every step: the child ignored the termination request.
C9_Witness == steps = <<"terminate", "kill", "join t1", "join t2", "report">>

\* C10: a forwarding thread that missed its join timeout is reported but
\* does not keep the proxy process from exiting: the proxy does not come to
\* rest with main() returned and the process still there.
C10_ProcessExitsAfterTeardown ==
    (report = "unclean" /\ Quiescent) => mpc = "exited"

\* The main loop was left on the child's exit, before any other trigger.
ChildFirst == "child exited" \in Range(steps)

\* C11: the proxy's exit code is the child's when the child ended first,
\* and the success code after any other shutdown.
C11_ExitCodeReflectsChild ==
    (mpc = "exited" /\ child # "none") =>
        exitcode = (IF ChildFirst THEN returncode ELSE Some(0))

\* ------------------------------------------------- one message, translated
\* Strings an editor or a server may put in a message: a path after each of
\* the prefixes the proxies look for, after two of them, after none, and
\* with a URI further inside.
TestRests == {<<"a">>, <<"src", "/", "a.rs">>}

TestPrefixes ==
    { <<>>,
      RemotePrefix(protocol, remote),
      RemotePrefix(protocol, remote) \o <<"/">>,
      RemotePrefix(protocol, remote) \o RemotePrefix(protocol, remote),
      FilePrefix2,
      FilePrefix3,
      DoublePrefix(protocol, remote),
      <<"see ">> \o RemotePrefix(protocol, remote),
      <<"see ">> \o FilePrefix3 }

TestLeaves == {Str(p \o r) : p \in TestPrefixes, r \in TestRests} \cup {Num}

\* The places of a message a leaf is put in.
Shapes(leaf) ==
    { leaf,
      Arr(<<leaf>>),
      Obj(<< <<"uri", leaf>> >>),
      Obj(<< <<"result", Arr(<<leaf, Num>>)>> >>),
      Obj(<< <<"textDocument", Obj(<< <<"uri", leaf>> >>)>> >>),
      Obj(<< <<"params", Obj(<< <<"rootUri", leaf>> >>)>> >>),
      Obj(<< <<"params", Obj(<< <<"rootPath", leaf>> >>)>> >>),
      Obj(<< <<"params", Obj(<< <<"workspaceFolders", Arr(<<leaf>>)>> >>)>> >>),
      Obj(<< <<"params", Obj(<< <<"workspaceFolders", Arr(<<Obj(<< <<"uri", leaf>> >>)>>)>> >>)>> >>) }

TestMessages == UNION {Shapes(leaf) : leaf \in TestLeaves}

\* Both threads run, and the thread of one direction has read the body of
\* one message in full (the buffered reader of stdin only does so at end of
\* file); the other thread waits in its read.
TranslateInit ==
    /\ variant \in {"legacy", "buffered"}
    /\ \E d \in Dirs : \E v \in TestMessages :
          LET atEOF == variant = "buffered" /\ d = "n2s"
              waiting == [e \in Dirs |->
                             IF variant = "buffered" THEN "read"
                             ELSE IF can_peek(e) THEN "peek" ELSE "hdr"]
          IN /\ sent = [All(<<>>) EXCEPT ![d] = <<[kind |-> "good", msg |-> v]>>]
             /\ inEOF = [All(FALSE) EXCEPT !["n2s"] = atEOF]
             /\ stdoutClosed = atEOF
             /\ pc = [waiting EXCEPT ![d] = IF variant = "buffered" THEN "proc" ELSE "body"]
             /\ buffer = [All(<<>>) EXCEPT ![d] =
                             IF variant = "buffered" THEN Encode(v) ELSE Header(Encode(v))]
             /\ parsing_headers = [All(TRUE) EXCEPT ![d] = variant # "buffered"]
             /\ content_length = [All(None) EXCEPT ![d] = Some(Size(v))]
             /\ content = [All(<<>>) EXCEPT ![d] = IF variant = "buffered" THEN <<>> ELSE Encode(v)]
    /\ shutdown_requested = FALSE
    /\ inp = All(<<>>)
    /\ pend = All(<<>>)
    /\ out = All(<<>>)
    /\ wbuf = All(<<>>)
    /\ new_content = All(<<>>)
    /\ child = "running"
    /\ returncode = None
    /\ mpc = "loop"
    /\ steps = <<>>
    /\ report = ""
    /\ exitcode = None
    /\ signalled = FALSE
    /\ stderr_pc = "readline"
    /\ log = All(<<>>)

\* What a thread does with the body: decode, rewrite, serialize, write.
TranslateNext ==
    \E d \in Dirs :
       \/ ReadContent(d)
       \/ ParseContent(d)
       \/ WriteHeader(d)
       \/ WriteBody(d)
       \/ Flush(d)

TranslateSpec == TranslateInit /\ [][TranslateNext]_vars

\* The message direction d received, and the one it has written.
Input(d) == sent[d][1].msg

Forwarded(d) == log[d] = <<"forwarded">>

Output(d) == Decode(Drop(out[d], Len(Header(new_content[d]))))

RECURSIVE Leaves(_)
\* The leaves of a message, in document order.
Leaves(v) ==
    IF IsDict(v) \/ IsList(v)
    THEN Flatten([i \in 1..Len(v.c) |-> Leaves(v.c[i][2])])
    ELSE <<v>>

\* Every leaf of the input of direction d that starts with prefix `from` has
\* become `to` followed by the rest of the leaf.
Rewrites(d, from, to) ==
    LET a == Leaves(Input(d))
        b == Leaves(Output(d))
    IN /\ Len(a) = Len(b)
       /\ \A i \in 1..Len(a) :
             (IsStr(a[i]) /\ StartsWith(a[i].s, from)) =>
                 b[i] = Str(to \o Drop(a[i].s, Len(from)))

\* C12: on the editor->server direction every string leaf
\* scheme://host/<rest> is written as file:///<rest>.
C12_ToRemoteRewritesPrefix ==
    Forwarded("n2s") =>
        Rewrites("n2s", RemotePrefix(protocol, remote), FilePrefix3)

\* C13: on the server->editor direction every string leaf file:///<rest>
\* is written as scheme://host/<rest>, with one slash after the host.
C13_ToClientRewritesPrefix ==
    Forwarded("s2n") =>
        Rewrites("s2n", FilePrefix3, RemotePrefix(protocol, remote))

\* C14: on the editor->server direction every string leaf
\* file://scheme://host/<path> is written as file:///<path>, with every
\* component of <path>.
C14_DoublePrefixCollapsed ==
    Forwarded("n2s") =>
        Rewrites("n2s", DoublePrefix(protocol, remote), FilePrefix3)

\* C15: translating editor->server a second time changes nothing.
C15_ToRemoteIdempotent ==
    Forwarded("n2s") =>
        Translate(variant, "n2s", Output("n2s")) = Output("n2s")

\* The prefixes the translation of direction d looks for.
Recognized(d) ==
    IF d = "n2s"
    THEN {RemotePrefix(protocol, remote), DoublePrefix(protocol, remote)}
    ELSE {FilePrefix2}

\* Every leaf of the input that is no string, or starts with none of the
\* prefixes, is the same leaf in the output.
PassesThrough(d) ==
    LET a == Leaves(Input(d))
        b == Leaves(Output(d))
    IN /\ Len(a) = Len(b)
       /\ \A i \in 1..Len(a) :
             (~IsStr(a[i]) \/ \A p \in Recognized(d) : ~StartsWith(a[i].s, p)) =>
                 b[i] = a[i]

\* C16: in both directions a message (a JSON object) is forwarded with every
\* leaf that is no string, or that starts with none of the prefixes,
\* unchanged.
C16_OtherLeavesUnchanged ==
    \A d \in Dirs :
       (log[d] # <<>> /\ IsDict(Input(d))) => (Forwarded(d) /\ PassesThrough(d))

\* C17: the Content-Length a pipeline writes is the length of the body it
\* writes after it, which is the serialization of the translated message.
C17_ContentLengthRecomputed ==
    \A d \in Dirs :
       Forwarded(d) =>
          LET body == Drop(out[d], 3)
          IN /\ out[d][1].k = "line" /\ out[d][1].name = "Content-Length"
             /\ out[d][1].ok /\ out[d][1].n = Len(body)
             /\ out[d][2] = CRLF /\ out[d][3] = CRLF
             /\ body = Encode(Translate(variant, d, Input(d)))

\* A frame was written for a message whose size the translation changed.
C17_Witness ==
    /\ Forwarded("s2n")
    /\ Size(Output("s2n")) # Size(Input("s2n"))
    /\ out["s2n"][1].n = Size(Output("s2n"))

\* The body whose header block direction d has parsed, as far as it is read.
BodyRead(d) ==
    IF variant = "legacy" THEN content[d] ELSE SliceTo(buffer[d], content_length[d].n)

\* Direction d has parsed a header block and not yet all of the body.
MidBody(d) ==
    /\ content_length[d].some
    /\ IF variant = "legacy"
       THEN pc[d] \in {"body", "ret", "done"} /\ Len(content[d]) < content_length[d].n
       ELSE /\ ~parsing_headers[d] /\ pc[d] \notin {"whdr", "wbody", "flush"}
            /\ Len(buffer[d]) < content_length[d].n

\* The input of direction d has ended inside a body.
ClosedMidBody(d) == MidBody(d) /\ inEOF[d] /\ inp[d] = <<>>

\* C18: a pipeline writes only in its three write steps, enters them only
\* with the whole body read and no shutdown seen, and once its input has
\* ended inside a body it writes nothing more and ends.
C18_NoPartialFrames ==
    [][\A d \in Dirs :
          /\ (out'[d] # out[d] \/ wbuf'[d] # wbuf[d]) => pc[d] \in {"whdr", "wbody", "flush"}
          /\ (pc'[d] = "whdr" /\ pc[d] # "whdr") =>
                /\ ~shutdown_requested
                /\ Len(BodyRead(d)) = content_length[d].n
                /\ new_content'[d] = Encode(Translate(variant, d, Decode(BodyRead(d))))
          /\ ClosedMidBody(d) =>
                /\ ClosedMidBody(d)'
                /\ out'[d] = out[d] /\ wbuf'[d] = wbuf[d]
                /\ pc'[d] \notin {"whdr", "wbody", "flush"}]_vars

\* One message was forwarded, the next lost its body to the end of the
\* stream, and the thread has ended with the one frame written.
C18_Witness ==
    /\ Len(sent["n2s"]) = 2
    /\ log["n2s"] = <<"forwarded">>
    /\ ClosedMidBody("n2s") /\ Closed("n2s")
    /\ out["n2s"] = Forwards("n2s", {1})

\* C19: the shutdown flag starts unset and, once set, stays set: no step
\* resets it, and a step that sets it again leaves it set.
C19_FlagMonotonic ==
    /\ ~shutdown_requested
    /\ [][shutdown_requested => shutdown_requested']_vars

\* The flag has been set by the signal handler, by both thread functions and
\* by the main thread, and is still set when the process is gone.
C19_Witness ==
    /\ signalled /\ pc = All("done") /\ mpc = "exited" /\ child # "none"
    /\ shutdown_requested

\* The child could not be spawned and the proxy is gone.
SpawnFailed == child = "none" /\ mpc = "exited"

\* C20: when the child cannot be spawned the proxy exits with a status
\* other than zero, no thread was started, nothing was written, and all the
\* editor wrote is still unread in the proxy's stdin.
C20_SpawnFailureExits ==
    SpawnFailed =>
       /\ exitcode.some /\ exitcode.n # 0
       /\ pc = All("unstarted") /\ stderr_pc = "unstarted"
       /\ out = All(<<>>) /\ wbuf = All(<<>>)
       /\ inp["n2s"] \o pend["n2s"] =
             Flatten([i \in 1..Len(sent["n2s"]) |-> GoodFrame(sent["n2s"][i].msg)])

\* The spawn failed with a frame of the editor waiting in the proxy's stdin.
C20_Witness == SpawnFailed /\ Len(sent["n2s"]) = MaxN2S /\ inp["n2s"] # <<>>

\* The prefix the translation of direction d is to replace.
SourcePrefix(d) == IF d = "n2s" THEN RemotePrefix(protocol, remote) ELSE FilePrefix3

\* Every string leaf of the input of direction d that starts with the source
\* prefix, wherever it sits in the message, is another string in the output.
CoversAllLeaves(d) ==
    LET a == Leaves(Input(d))
        b == Leaves(Output(d))
    IN /\ Len(a) = Len(b)
       /\ \A i \in 1..Len(a) :
             (IsStr(a[i]) /\ StartsWith(a[i].s, SourcePrefix(d))) =>
                 (IsStr(b[i]) /\ b[i] # a[i])

\* C21: in both directions every string leaf of a forwarded message that
\* starts with the source prefix is rewritten, at any depth, under any key
\* and in any array.
C21_TranslationCoversBody == \A d \in Dirs : Forwarded(d) => CoversAllLeaves(d)

\* A string file://<rest> whose <rest> does not start with a slash.
TwoSlashFile(v) ==
    IsStr(v) /\ StartsWith(v.s, FilePrefix2) /\ ~StartsWith(v.s, FilePrefix3)

\* C22: on the server->editor direction a string leaf file://<rest>, with
\* <rest> not starting with a slash, is written as scheme://host/<rest>.
C22_TwoSlashFileTranslated ==
    Forwarded("s2n") =>
        LET a == Leaves(Input("s2n"))
            b == Leaves(Output("s2n"))
        IN /\ Len(a) = Len(b)
           /\ \A i \in 1..Len(a) :
                 TwoSlashFile(a[i]) =>
                     b[i] = Str(RemotePrefix(protocol, remote) \o Drop(a[i].s, Len(FilePrefix2)))

\* ---------------------------------------------------------------- framing
\* {"id": 1}
MsgPing == Obj(<< <<"id", Num>> >>)

\* The spellings of the header name a peer may use.
HeaderNames == {"Content-Length", "content-length", "CONTENT-LENGTH"}

SpellingKind(name) ==
    IF name = "Content-Length" THEN "good" ELSE IF name = "content-length" THEN "lower" ELSE "upper"

\* The frames a peer writes when the framing is observed: one message under
\* each spelling of the header name, and a header block with a negative
\* Content-Length.
FramingFrames ==
    { [kind |-> SpellingKind(name), msg |-> MsgPing,
       bytes |-> Frame(name, TRUE, Size(MsgPing), Encode(MsgPing))] : name \in HeaderNames }
    \cup { [kind |-> "negative", msg |-> Num, bytes |-> Frame("Content-Length", TRUE, -1, <<>>)] }

\* What the peer writes in one run: one frame or two.
FramingInputs ==
    {<<f>> : f \in FramingFrames} \cup {<<f, g>> : f \in FramingFrames, g \in FramingFrames}

\* Both threads wait for input, and the peer of one direction has written
\* its frames, which are still in the transport.
FramingInit ==
    /\ variant \in {"legacy", "buffered"}
    /\ \E d \in Dirs : \E fs \in FramingInputs :
          /\ sent = [All(<<>>) EXCEPT ![d] = [i \in 1..Len(fs) |-> [kind |-> fs[i].kind, msg |-> fs[i].msg]]]
          /\ pend = [All(<<>>) EXCEPT ![d] = Flatten([i \in 1..Len(fs) |-> fs[i].bytes])]
    /\ pc = [e \in Dirs |->
                IF variant = "buffered" THEN "read"
                ELSE IF can_peek(e) THEN "peek" ELSE "hdr"]
    /\ shutdown_requested = FALSE
    /\ inp = All(<<>>)
    /\ inEOF = All(FALSE)
    /\ out = All(<<>>)
    /\ wbuf = All(<<>>)
    /\ stdoutClosed = FALSE
    /\ buffer = All(<<>>)
    /\ parsing_headers = All(TRUE)
    /\ content_length = All(None)
    /\ content = All(<<>>)
    /\ new_content = All(<<>>)
    /\ child = "running"
    /\ returncode = None
    /\ mpc = "loop"
    /\ steps = <<>>
    /\ report = ""
    /\ exitcode = None
    /\ signalled = FALSE
    /\ stderr_pc = "readline"
    /\ log = All(<<>>)

\* The transport hands over some more of the bytes it holds: any number of
\* them, so that a frame may arrive cut anywhere.
Transport(d) ==
    /\ pend[d] # <<>>
    /\ \E k \in 1..Len(pend[d]) :
          /\ inp' = [inp EXCEPT ![d] = @ \o Take(pend[d], k)]
          /\ pend' = [pend EXCEPT ![d] = Drop(@, k)]
    /\ UNCHANGED <<variant, stderr_pc, shutdown_requested, inEOF, sent, out, wbuf, stdoutClosed, pc,
                   localVars, child, mainVars, signalled, log>>

\* The editor closes its end after all it wrote has arrived.
InputEnds ==
    /\ pend["n2s"] = <<>>
    /\ ~inEOF["n2s"]
    /\ inEOF' = [inEOF EXCEPT !["n2s"] = TRUE]
    /\ UNCHANGED <<variant, stderr_pc, shutdown_requested, inp, pend, sent, out, wbuf, stdoutClosed,
                   pc, localVars, child, mainVars, signalled, log>>

FramingNext == (\E d \in Dirs : Transport(d) \/ Pipeline(d)) \/ InputEnds

FramingSpec == FramingInit /\ [][FramingNext]_vars

\* All that the peer of direction d wrote has arrived and was read, and the
\* thread of d can do nothing until more arrives.
Drained(d) == pend[d] = <<>> /\ inp[d] = <<>> /\ ~ENABLED Pipeline(d)

\* No shutdown has come from elsewhere to cut the work of direction d
\* short: the editor->server thread, where nothing else ends, sets the flag
\* itself when it has finished.
Undisturbed(d) == d = "s2n" => ~shutdown_requested

\* The peer of direction d wrote whole messages only, under any spelling of
\* the header name.
WellFramed(d) == \A i \in 1..Len(sent[d]) : sent[d][i].kind \in {"good", "lower", "upper"}

\* C23: a message is forwarded whatever the letter case of its
\* Content-Length header name: when a pipeline has read all of a well-framed
\* input, it has written the frame of every message of it.
C23_HeaderNameAnyCase ==
    \A d \in Dirs :
       (Drained(d) /\ Undisturbed(d) /\ WellFramed(d)) =>
           out[d] = Forwards(d, 1..Len(sent[d]))

\* The bytes the peer of direction d wrote, in order.
InputBytes(d) ==
    Flatten([i \in 1..Len(sent[d]) |->
                (CHOOSE f \in FramingFrames : f.kind = sent[d][i].kind).bytes])

RECURSIVE OneChunk(_, _, _, _)
\* What the inner loop of the buffered handle_stream writes when all of the
\* input is in the buffer at once: header block, body, header block, ...
\* until the buffer is used up, holds less than the next piece, or "exit"
\* was seen.
OneChunk(d, buf, headers, n) ==
    IF buf = <<>> THEN <<>>
    ELSE IF headers
    THEN LET header_end == FindHeaderEnd(buf)
             cl == ParseBuffered(Take(buf, header_end - 1))
         IN IF header_end = 0 THEN <<>>
            ELSE OneChunk(d, Drop(buf, header_end + 1), ~cl.some, cl.n)
    ELSE IF Len(buf) < n THEN <<>>
    ELSE LET c == SliceTo(buf, n)
             frame == IF Forwardable(d, c)
                      THEN GoodFrame(Translate("buffered", d, Decode(c)))
                      ELSE <<>>
         IN frame \o (IF SeesExit(d, c) THEN <<>> ELSE OneChunk(d, SliceFrom(buf, n), TRUE, 0))

\* C24: the buffered handle_stream writes the same frames however its input
\* is cut into chunks: when it has read all of the input, it has written
\* what it writes for the same bytes arriving in one chunk.
C24_ChunkingIndependent ==
    \A d \in Dirs :
       (variant = "buffered" /\ Drained(d) /\ Undisturbed(d)) =>
           out[d] = OneChunk(d, InputBytes(d), TRUE, 0)

\* Whole messages, and all of their bytes, have arrived on the input of
\* direction d, which stays open, and no shutdown was requested.
AllArrived(d) ==
    /\ sent[d] # <<>> /\ WellFramed(d)
    /\ pend[d] = <<>> /\ ~inEOF[d]
    /\ ~shutdown_requested

\* C25: the buffered handle_stream forwards every message that has arrived
\* in full without waiting for more input: its thread does not come to rest
\* before the frames of all of them are written.
C25_ForwardsWithoutMoreInput ==
    \A d \in Dirs :
       (variant = "buffered" /\ AllArrived(d) /\ ~ENABLED Pipeline(d)) =>
           out[d] = Forwards(d, 1..Len(sent[d]))

\* The value under params.<key> of message v, or v itself when there is none.
ParamOf(v, key) ==
    IF IsDict(v) /\ Has(v, "params") /\ IsDict(Get(v, "params")) /\ Has(Get(v, "params"), key)
    THEN Get(Get(v, "params"), key)
    ELSE v

\* String s, when it starts with prefix `from`, has become `to` followed by
\* all of the rest of s.
Refixed(a, b, from, to) ==
    (IsStr(a) /\ StartsWith(a.s, from)) => b = Str(to \o Drop(a.s, Len(from)))

\* C26: on the editor->server direction of lua/remote-lsp/proxy.py,
\* params.rootPath scheme://host/<path> is written as /<path>, and
\* params.rootUri and params.workspaceFolders[].uri
\* file://scheme://host/<path> as file:///<path>, with all of <path>.
C26_RootFixesKeepPath ==
    (variant = "buffered" /\ Forwarded("n2s")) =>
        LET a == Input("n2s")
            b == Output("n2s")
            fa == ParamOf(a, "workspaceFolders")
            fb == ParamOf(b, "workspaceFolders")
        IN /\ Refixed(ParamOf(a, "rootPath"), ParamOf(b, "rootPath"),
                      RemotePrefix(protocol, remote), <<"/">>)
           /\ Refixed(ParamOf(a, "rootUri"), ParamOf(b, "rootUri"),
                      DoublePrefix(protocol, remote), FilePrefix3)
           /\ (IsList(fa) /\ fa # a) =>
                 \A i \in 1..Len(fa.c) :
                    (IsDict(fa.c[i][2]) /\ Has(fa.c[i][2], "uri")) =>
                        Refixed(Get(fa.c[i][2], "uri"), Get(fb.c[i][2], "uri"),
                                DoublePrefix(protocol, remote), FilePrefix3)

====
